---- MODULE Spec2Model ----
(***************************************************************************)
(* canary-gate: the gate store (in-process map, ConfigMap, CanaryGate      *)
(* custom resource) and the HTTP handlers that Flagger and the CLI call.   *)
(* One request is one call record; a substrate call (Get, Create, Update   *)
(* of the cluster API, Store / LoadOrStore of the sync.Map) is one step.   *)
(***************************************************************************)
EXTENDS Integers, Sequences, FiniteSets, TLC

VARIABLES backend, configNS, faults, keys, manifest, left, data, cluster, canaries, call,
          written, hooked

vars == <<backend, configNS, faults, keys, manifest, left, data, cluster, canaries, call,
          written, hooked>>

---------------------------------------------------------------------------
(* service/flagger.go : hook types                                         *)

HookRollout == "rollout"
HookPreRollout == "pre-rollout"
HookPostRollout == "post-rollout"
HookConfirmRollout == "confirm-rollout"
HookConfirmPromotion == "confirm-promotion"
HookEvent == "event"
HookRollback == "rollback"
HookConfirmTrafficIncrease == "confirm-traffic-increase"
HookAll == "all"

Phases == {HookConfirmRollout, HookPreRollout, HookRollout, HookConfirmTrafficIncrease,
           HookConfirmPromotion, HookPostRollout, HookRollback}

---------------------------------------------------------------------------
(* store package : StoreKey and the shared policy functions                *)

GATE_OPEN == "opened"
GATE_CLOSE == "closed"

StoreKey(ns, name, type) == [Namespace |-> ns, Name |-> name, Type |-> type]

defaultValueAlwaysOpen(key) == TRUE

defaultValue(key) == key.Type # HookRollback

defaultText(key) == IF defaultValue(key) THEN GATE_OPEN ELSE GATE_CLOSE

GateStatusInverted(val) == IF val THEN GATE_CLOSE ELSE GATE_OPEN

GateStatus(val) == IF val THEN GATE_OPEN ELSE GATE_CLOSE

GateBoolStatusLenient(val) == val \in {GATE_OPEN, "open"}

GateBoolStatusNotClosed(val) == val # GATE_CLOSE

GateBoolStatus(val) == val = GATE_OPEN

KeyString(key) == key.Namespace \o "/" \o key.Name \o "=" \o key.Type

GateMessage(key, status) == "Gate [" \o KeyString(key) \o "] is set to [" \o status \o "]"

---------------------------------------------------------------------------
(* The inputs: namespaces and names are Kubernetes names, which may hold   *)
(* hyphens; the control namespace is empty (unset) or set.                 *)

Namespaces == {"a", "a-b"}
Names == {"c", "b-c"}
ControlNamespaces == {"", "ctl"}
Backends == {"memory", "configmap", "canarygate"}
AllKeys == {StoreKey(ns, name, t) : ns \in Namespaces, name \in Names, t \in Phases}

\* the order of the phases in a status request for all of them
PhaseOrder == <<HookConfirmRollout, HookPreRollout, HookRollout, HookConfirmTrafficIncrease,
                HookConfirmPromotion, HookPostRollout, HookRollback>>

\* the keys the callers of a run work on: every phase of one (namespace, name), with
\* the next phase of the same pair, or the same phase of a pair whose names join alike
HomeKeys == {k \in AllKeys : k.Namespace = "a-b" /\ k.Name = "c"}
Sibling(key) ==
    LET i == CHOOSE j \in 1..7 : PhaseOrder[j] = key.Type
    IN  StoreKey(key.Namespace, key.Name, PhaseOrder[(i % 7) + 1])
Collider(key) == StoreKey("a", "b-c", key.Type)

\* the payload Flagger posts to a webhook: phase and metadata["eventMessage"]
PayloadPhase == "Progressing"
PayloadMessage == "Starting canary analysis"
PhaseSucceeded == "Succeeded"

\* strings.Contains
RECURSIVE ContainsAt(_, _, _)
ContainsAt(s, sub, i) ==
    IF i + Len(sub) - 1 > Len(s) THEN FALSE
    ELSE IF SubSeq(s, i, i + Len(sub) - 1) = sub THEN TRUE
    ELSE ContainsAt(s, sub, i + 1)

\* logEvent: Flagger reports the end of a promotion in the message only
logEventPhase(message) ==
    IF ContainsAt(message, "Promotion completed!", 1) THEN PhaseSucceeded ELSE PayloadPhase

PutAlone(f, k, v) == k :> v

Put(f, k, v) == [x \in (DOMAIN f) \cup {k} |-> IF x = k THEN v ELSE f[x]]

---------------------------------------------------------------------------
(* store/memory.go                                                         *)

getKey(key) == key.Namespace \o ":" \o key.Name \o ":" \o key.Type

getEventKey(key) == key.Namespace \o ":" \o key.Name \o ":" \o HookEvent

---------------------------------------------------------------------------
(* store/configmap.go and store/canarygate.go : naming of the backing      *)
(* object                                                                  *)

ConfigMapSuffix == "cgate"

getConfigMapName(key) == key.Namespace \o "-" \o key.Name \o "-" \o ConfigMapSuffix

getConfigMapNamespaceOfKey(key) == key.Namespace

getConfigMapNamespace(key) == IF configNS # "" THEN configNS ELSE key.Namespace

getCanaryGateName(key) == key.Namespace \o "-" \o key.Name

getCanaryGateNamespace(key) == IF configNS # "" THEN configNS ELSE key.Namespace

\* the namespace of ConfigMaps(ns).Update / Resource(gvr).Namespace(ns).Update: that
\* of the fetched ConfigMap, and the one computed for the key of a CanaryGate
updateNamespace(conf, key) ==
    IF backend = "configmap" THEN conf.id[1] ELSE getCanaryGateNamespace(key)

\* the object a key resolves to on the running backend
ObjectId(key) ==
    IF backend = "configmap"
    THEN <<getConfigMapNamespace(key), getConfigMapName(key)>>
    ELSE <<getCanaryGateNamespace(key), getCanaryGateName(key)>>

\* retry.DefaultRetry: the closure of RetryOnConflict runs at most Steps times
Steps == 5

IsAnyError(err) == err # "nil"

\* errors.IsConflict, the only error RetryOnConflict retries
IsConflict(err) == err = "conflict"

---------------------------------------------------------------------------
(* The objects of the cluster API.  A ConfigMap is its Data dictionary; a  *)
(* CanaryGate is its Spec (one string per phase, "" when omitted) and its  *)
(* Status.  A copy held by a caller is fresh while no write to the object  *)
(* was accepted since the copy was read: the API server answers an Update  *)
(* made from any other copy with a conflict (resourceVersion differs).       *)

NoObj == [Data |-> <<>>]
NilConf == [isNil |-> TRUE, id |-> <<"", "">>, fresh |-> FALSE, obj |-> NoObj]
HeldConf(id) == [isNil |-> FALSE, id |-> id, fresh |-> TRUE, obj |-> cluster[id]]

newConfigMapEmpty(key) == [Data |-> <<>>]

\* createConfigMap: the new ConfigMap carries the creating key's phase at its default
newConfigMap(key) == [Data |-> (key.Type :> GateStatus(defaultValue(key)))]

\* the zero values of spec.target and of spec.flagger (no raw content)
NoTarget == [Namespace |-> "", Name |-> ""]
NoFlagger == [Raw |-> FALSE, TargetRef |-> "", Webhooks |-> <<>>]

\* CreateCanaryGate: TypeMeta and ObjectMeta only, Spec and Status are zero values
newCanaryGate(key) ==
    [Spec |-> [t \in Phases |-> ""],
     Status |-> [Name |-> "", Namespace |-> "", Status |-> "", Message |-> ""],
     Target |-> NoTarget, Flagger |-> NoFlagger]

\* a switch with a case for all that sets every phase
setSpecFieldAll(obj, key, status) ==
    LET named == [obj EXCEPT !.Status.Name = key.Name, !.Status.Namespace = key.Namespace]
    IN  IF key.Type \in Phases THEN [named EXCEPT !.Spec[key.Type] = status]
        ELSE [named EXCEPT !.Spec = [t \in Phases |-> status]]

setSpecFieldNoCase(obj, key, status) ==
    [obj EXCEPT !.Status.Name = key.Name, !.Status.Namespace = key.Namespace]

\* UpdateCanaryGate: the switch on key.Type that picks the Spec field
setSpecField(obj, key, status) ==
    LET field == CASE key.Type = HookConfirmRollout -> HookConfirmRollout
                   [] key.Type = HookPreRollout -> HookPreRollout
                   [] key.Type = HookRollout -> HookRollout
                   [] key.Type = HookConfirmTrafficIncrease -> HookConfirmTrafficIncrease
                   [] key.Type = HookPostRollout -> HookPostRollout
                   [] key.Type = HookConfirmPromotion -> HookConfirmPromotion
                   [] key.Type = HookRollback -> HookRollback
                   [] OTHER -> ""
        named == [obj EXCEPT !.Status.Name = key.Name, !.Status.Namespace = key.Namespace]
    IN  IF field = "" THEN named ELSE [named EXCEPT !.Spec[field] = status]

\* IsGateOpen of the CanaryGate store: the switch that reads the Spec field
getSpecField(conf, key) ==
    IF conf.isNil \/ key.Type \notin Phases THEN "" ELSE conf.obj.Spec[key.Type]

\* ConfigMapStore.IsGateOpen on a fetched ConfigMap
configMapGate(conf, key) ==
    IF key.Type \in DOMAIN conf.obj.Data
    THEN conf.obj.Data[key.Type] = GATE_OPEN
    ELSE defaultValue(key)

canaryGateGateNoDefault(conf, key) == GateBoolStatus(getSpecField(conf, key))

\* CanaryGateStore.IsGateOpen on the outcome of its fetch (conf is nil when the fetch failed)
canaryGateGate(conf, key) ==
    LET status == getSpecField(conf, key)
    IN  IF status = "" THEN defaultValue(key) ELSE GateBoolStatus(status)

\* the dynamic type of a value of the sync.Map: val.(bool) succeeds on a bool and
\* v.(string) on a string, the other way round the assertion panics
IsBool(v) == ToString(v) \in {"TRUE", "FALSE"}

\* MemoryStore.IsGateOpen: the value LoadOrStore hands back
memoryGate(key) ==
    IF getKey(key) \in DOMAIN data THEN data[getKey(key)] ELSE defaultValue(key)

\* MemoryStore.GetLastEvent
memoryLastEvent(key) ==
    IF getEventKey(key) \in DOMAIN data THEN data[getEventKey(key)] ELSE ""

\* ConfigMapStore.GetLastEvent on the answer of GetConfigMap (no lazy create)
configMapLastEvent(out, id) ==
    IF out = "ok" /\ HookEvent \in DOMAIN cluster[id].Data THEN cluster[id].Data[HookEvent] ELSE ""

\* CanaryGateStore.GetLastEvent: the message of the status, "" without the object
canaryGateLastEvent(out, id) ==
    IF out = "ok" THEN cluster[id].Status.Message ELSE ""

---------------------------------------------------------------------------
(* What the store holds for a key, read without side effects.              *)

\* the value IsGateOpen(key) returns when its fetch succeeds
GateView(key) ==
    CASE backend = "memory" -> memoryGate(key)
      [] backend = "configmap" ->
            IF ObjectId(key) \in DOMAIN cluster
            THEN configMapGate(HeldConf(ObjectId(key)), key)
            ELSE defaultValue(key)
      [] OTHER ->
            IF ObjectId(key) \in DOMAIN cluster
            THEN canaryGateGate(HeldConf(ObjectId(key)), key)
            ELSE defaultValue(key)

\* the stored text of the phase, "<absent>" when nothing is stored
RawField(key) ==
    CASE backend = "memory" ->
            IF getKey(key) \in DOMAIN data THEN GateStatus(data[getKey(key)]) ELSE "<absent>"
      [] backend = "configmap" ->
            IF ObjectId(key) \in DOMAIN cluster /\ key.Type \in DOMAIN cluster[ObjectId(key)].Data
            THEN cluster[ObjectId(key)].Data[key.Type] ELSE "<absent>"
      [] OTHER ->
            IF ObjectId(key) \in DOMAIN cluster /\ cluster[ObjectId(key)].Spec[key.Type] # ""
            THEN cluster[ObjectId(key)].Spec[key.Type] ELSE "<absent>"

\* the place a key's gate is stored at
Slot(key) ==
    IF backend = "memory" THEN <<<<"", getKey(key)>>, key.Type>> ELSE <<ObjectId(key), key.Type>>

\* the (namespace, name) whose last event message a key reads and writes
EventSlot(key) == <<<<key.Namespace, key.Name>>, HookEvent>>

\* the requests that call UpdateEvent: GateOpen / GateClose of the in-process and the
\* ConfigMap store, and logEvent of a webhook when the store is a CanaryGateStore
RecordsEvent(op) ==
    IF backend = "canarygate" THEN op = "webhook" ELSE op \in {"open", "close"}

---------------------------------------------------------------------------
(* A request in flight.  pc is the next substrate call; proc is the store  *)
(* routine that makes it: "gate" (updateGate / UpdateCanaryGate), "event"  *)
(* (UpdateEvent) or "query" (IsGateOpen).                                  *)

Mutations == {"open", "close"}
NoKey == StoreKey("", "", "")

\* the key of the store call in progress: StatusGate queries one gate type after another
CurKey(r) ==
    IF r.op = "status" /\ r.types # <<>>
    THEN StoreKey(r.key.Namespace, r.key.Name, Head(r.types))
    ELSE r.key

gateTypesPromotionLast(type) ==
    IF type = HookAll
    THEN <<HookConfirmRollout, HookPreRollout, HookRollout, HookConfirmTrafficIncrease,
           HookPostRollout, HookRollback, HookConfirmPromotion>>
    ELSE <<type>>

\* StatusGate: the gate types a status request asks for
gateTypes(type) ==
    IF type = HookAll
    THEN <<HookConfirmRollout, HookPreRollout, HookRollout, HookConfirmTrafficIncrease,
           HookConfirmPromotion, HookPostRollout, HookRollback>>
    ELSE <<type>>

\* createResponse: one CanaryGateStatus appended to the list of the response
createResponse(result, namespace, name, t, status) ==
    Append(result, [Type |-> t, Name |-> name, Namespace |-> namespace, Status |-> status])

IdleCall ==
    [pc |-> "idle", op |-> "none", key |-> NoKey, proc |-> "none",
     attempt |-> 0, evAttempt |-> 0, conf |-> NilConf, gateErr |-> "nil",
     ret |-> FALSE, code |-> 0, body |-> <<>>, noti |-> "none",
     types |-> <<>>, gates |-> <<>>, path |-> "none", input |-> "json",
     \* observations of the run, read by the properties only
     prevOp |-> "none", prevKey |-> NoKey, fresh |-> FALSE,
     before |-> [view |-> FALSE, raw |-> ""],
     ncalls |-> 0, fetchErr |-> FALSE, readErr |-> FALSE, writes |-> "none", hardAt |-> 0,
     restarted |-> FALSE, restOp |-> "none", restKey |-> NoKey, last |-> FALSE,
     \* the answer of the Create of this request
     made |-> "none",
     \* the context was cancelled since the last call of the cluster API
     cancelled |-> FALSE,
     \* the namespace the last call of the cluster API was addressed to
     addr |-> "none",
     scen |-> 0, scenKey |-> NoKey, codes |-> <<>>]

\* IsGateOpen starts (responseWebhook)
StartQuery(r) ==
    IF backend = "memory"
    THEN [r EXCEPT !.pc = "mload", !.proc = "query"]
    ELSE [r EXCEPT !.pc = "get", !.proc = "query", !.conf = NilConf,
                   !.ncalls = 0, !.fetchErr = FALSE, !.readErr = FALSE]

AfterLogEventNotifyAll(r) == [r EXCEPT !.pc = "notify", !.conf = NilConf]

\* the webhook handler after logEvent: ConfirmRollout calls the notification sink first
AfterLogEvent(r) ==
    IF r.key.Type = HookConfirmRollout THEN [r EXCEPT !.pc = "notify", !.conf = NilConf]
    ELSE StartQuery(r)

\* IsGateOpen returns val: to responseWebhook, or to the loop of StatusGate, which
\* goes on to the next gate type and after the last one to GetLastEvent
QueryDone(r, val) ==
    IF r.op # "status" THEN [r EXCEPT !.pc = "respond", !.ret = val, !.conf = NilConf]
    ELSE LET r1 == [r EXCEPT !.ret = val, !.conf = NilConf, !.types = Tail(@),
                             !.gates = createResponse(@, r.key.Namespace, r.key.Name,
                                                      Head(r.types), GateStatus(val))]
         IN  IF r1.types # <<>> THEN StartQuery(r1) ELSE [r1 EXCEPT !.pc = "lastevent"]

\* updateGate / UpdateCanaryGate return to the handler
GateDone(r) == [r EXCEPT !.pc = "respond", !.conf = NilConf]

GateAttemptEndNoRetry(r, err) == GateDone([r EXCEPT !.gateErr = err])

GateAttemptEndOneMore(r, err) ==
    IF err # "nil" /\ IsConflict(err) /\ r.attempt <= Steps
    THEN [r EXCEPT !.pc = "get", !.proc = "gate", !.attempt = @ + 1, !.conf = NilConf,
                   !.gateErr = "nil"]
    ELSE GateDone([r EXCEPT !.gateErr = err])

\* RetryOnConflict after the closure returned err on this attempt
GateAttemptEnd(r, err) ==
    IF err # "nil" /\ IsConflict(err) /\ r.attempt < Steps
    THEN [r EXCEPT !.pc = "get", !.proc = "gate", !.attempt = @ + 1, !.conf = NilConf,
                   !.gateErr = "nil"]
    ELSE GateDone([r EXCEPT !.gateErr = err])

\* UpdateEvent returns: to the closure of updateGate, or to logEvent
EventReturn(r) ==
    IF r.op \in Mutations THEN GateAttemptEnd(r, r.gateErr) ELSE AfterLogEvent(r)

\* a nil *CanaryGate is dereferenced
Panic(r) == [r EXCEPT !.pc = "panicked", !.conf = NilConf]

\* the closure holds the fetched object: it sets its field and goes on to Update
GotConf(r, conf) ==
    CASE r.proc = "gate" /\ backend = "configmap" ->
            [r EXCEPT !.pc = "update",
                      !.conf = [conf EXCEPT !.obj.Data = Put(@, r.key.Type, GateStatus(r.op = "open"))]]
      [] r.proc = "gate" /\ backend = "canarygate" ->
            [r EXCEPT !.pc = "update",
                      !.conf = [conf EXCEPT !.obj = setSpecField(@, r.key, GateStatus(r.op = "open"))]]
      [] r.proc = "event" /\ backend = "configmap" ->
            [r EXCEPT !.pc = "update",
                      !.conf = [conf EXCEPT !.obj.Data =
                                   Put(@, HookEvent, GateMessage(r.key, GateStatus(r.op = "open")))]]
      [] r.proc = "event" /\ backend = "canarygate" ->
            [r EXCEPT !.pc = "update",
                      !.conf = [conf EXCEPT !.obj.Status =
                                   [Name |-> r.key.Name, Namespace |-> r.key.Namespace,
                                    Status |-> logEventPhase(PayloadMessage),
                                    Message |-> PayloadMessage]]]
      [] OTHER -> QueryDone(r, configMapGate(conf, CurKey(r)))

FetchFailedClosed(r, err) ==
    CASE r.proc = "gate" ->
            GateAttemptEnd([r EXCEPT !.hardAt = IF err = "conflict" THEN @ ELSE r.attempt], err)
      [] r.proc = "event" -> EventReturn(r)
      [] OTHER -> QueryDone([r EXCEPT !.fetchErr = TRUE], FALSE)

\* the fetch handed an error back to the routine
FetchFailed(r, err) ==
    CASE r.proc = "gate" ->
            GateAttemptEnd([r EXCEPT !.hardAt = IF err = "conflict" THEN @ ELSE r.attempt], err)
      [] r.proc = "event" -> EventReturn(r)
      [] OTHER -> QueryDone([r EXCEPT !.fetchErr = TRUE], defaultValue(CurKey(r)))

---------------------------------------------------------------------------
(* The answers of the cluster API.  With faults off, a Get finds the       *)
(* object or answers not-found, a Create succeeds unless the object        *)
(* exists, and an Update is accepted exactly from a fresh copy.  With      *)
(* faults on, every call may also fail: a Get with a status error or a     *)
(* transport error, a Create with an error, an Update with a conflict (a   *)
(* writer outside the model got in first) or with another error.           *)

GetOutcomes(id) ==
    (IF id \in DOMAIN cluster THEN {"ok"} ELSE {"notfound"})
        \cup (IF faults THEN {"status", "net"} ELSE {})

CreateOutcomes(id) ==
    (IF id \in DOMAIN cluster THEN {"exists"} ELSE {"ok"})
        \cup (IF faults THEN {"error"} ELSE {})

UpdateOutcomes(conf) ==
    (IF conf.fresh THEN {"ok"} ELSE {"conflict"})
        \cup (IF faults THEN {"conflict", "error"} ELSE {})

UpdateError(out) == IF out = "ok" THEN "nil" ELSE out

\* an accepted write makes every other held copy of the object stale
MarkStale(r, id) ==
    IF ~r.conf.isNil /\ r.conf.id = id THEN [r EXCEPT !.conf.fresh = FALSE] ELSE r

\* observation: the gate write of w was accepted, so an earlier write of r to the
\* same place is no longer the last one
Outdone(r, w) ==
    IF w.proc = "gate" /\ r.op \in Mutations /\ Slot(r.key) = Slot(w.key)
    THEN [r EXCEPT !.last = FALSE] ELSE r

---------------------------------------------------------------------------
(* The routines after each substrate call.                                 *)

\* CreateConfigMapAndGet / GetCanaryGate and the branches on its error
AfterGet(r, id, out) ==
    LET conf == IF out = "ok" THEN HeldConf(id) ELSE NilConf
        r1 == [r EXCEPT !.readErr = @ \/ out \in {"status", "net"}]
    IN  CASE backend = "configmap" ->
                IF out = "ok" THEN GotConf(r1, conf)
                ELSE IF r.pc = "get" /\ out = "notfound" THEN [r1 EXCEPT !.pc = "create"]
                ELSE FetchFailed(r1, out)
          [] r.proc = "query" ->
                IF out = "status"
                THEN QueryDone([r1 EXCEPT !.fetchErr = TRUE], defaultValue(CurKey(r)))
                ELSE QueryDone([r1 EXCEPT !.fetchErr = (out = "net")],
                               canaryGateGate(conf, CurKey(r)))
          [] r.pc = "get" ->
                IF out = "ok" THEN GotConf(r1, conf)
                ELSE IF out = "notfound" THEN [r1 EXCEPT !.pc = "create"]
                ELSE IF out = "status" THEN FetchFailed(r1, out)
                ELSE Panic([r1 EXCEPT !.hardAt = IF r.proc = "gate" THEN r.attempt ELSE @])
          [] OTHER ->
                \* CreateCanaryGateAndGet drops the error of its fetch
                IF out = "ok" THEN GotConf(r1, conf)
                ELSE Panic([r1 EXCEPT !.hardAt = IF r.proc = "gate" THEN r.attempt ELSE @])

\* the runs where a Create can be raced for: several callers, each on a phase of
\* its own
Racing ==
    /\ Cardinality(DOMAIN call) > 1
    /\ \A c, d \in DOMAIN call : c # d => keys[c] \cap keys[d] = {}

\* createConfigMap with its error returned to the caller instead of logged
AfterCreateOrFail(r, out) ==
    IF out = "ok"
    THEN [r EXCEPT !.pc = "reget", !.made = IF r.op \in {"open", "close"} THEN out ELSE @,
                   !.ncalls = IF r.proc = "query" THEN @ + 1 ELSE @]
    ELSE FetchFailed([r EXCEPT !.made = out], out)

\* CreateConfigMapAndGet / CreateCanaryGateAndGet after the Create: its error is
\* logged (or dropped) and the object is fetched again; made observes the answer
\* that a mutation got in a race
AfterCreate(r, out) ==
    [r EXCEPT !.pc = "reget", !.made = IF Racing /\ r.op \in Mutations THEN out ELSE @,
              !.ncalls = IF r.proc = "query" THEN @ + 1 ELSE @]

EventAttemptEndUnbounded(r, err) ==
    IF err # "nil" /\ IsConflict(err)
    THEN [r EXCEPT !.pc = "get", !.evAttempt = @ + 1]
    ELSE EventReturn(r)

\* RetryOnConflict of UpdateEvent after the closure returned err on this attempt
EventAttemptEnd(r, err) ==
    IF err # "nil" /\ IsConflict(err) /\ r.evAttempt < Steps
    THEN [r EXCEPT !.pc = "get", !.evAttempt = @ + 1]
    ELSE EventReturn(r)

\* the closure after its Update returned
AfterUpdate(r, out) ==
    LET err == UpdateError(out)
        r1 == [r EXCEPT !.writes = IF out = "conflict" /\ @ # "mixed" THEN "conflict" ELSE "mixed",
                        !.last = @ \/ (out = "ok" /\ r.proc = "gate"),
                        !.conf = NilConf]
    IN  CASE r.proc = "gate" /\ backend = "configmap" ->
                \* updateGate records the event whatever the Update answered
                [r1 EXCEPT !.pc = "get", !.proc = "event", !.evAttempt = 1, !.gateErr = err,
                           !.hardAt = IF err \in {"nil", "conflict"} THEN @ ELSE r.attempt]
          [] r.proc = "gate" ->
                GateAttemptEnd([r1 EXCEPT !.hardAt =
                                    IF err \in {"nil", "conflict"} THEN @ ELSE r.attempt], err)
          [] OTHER -> EventAttemptEnd(r1, err)

\* the request bodies: one that json.Unmarshal accepts and one that it rejects
Bodies == {"json", "garbage"}

readPayloadAnyBody(body) == "nil"

\* readPayload: the error of json.Unmarshal
readPayload(body) == IF body = "json" THEN "nil" ELSE "invalid character"

IsPersistentStore == backend # "memory"

\* logEvent: stor, ok := h.store.(*store.CanaryGateStore)
IsCanaryGateStore == backend = "canarygate"

\* the handler calls the store
StartRequest(r, op, key) ==
    LET r0 == IF faults
              THEN [IdleCall EXCEPT
                      !.op = op, !.key = key,
                      !.before = IF key.Type \in Phases
                                 THEN [view |-> GateView(key), raw |-> RawField(key)] ELSE @]
              ELSE [IdleCall EXCEPT
                      !.op = op, !.key = key,
                      !.prevOp = IF r.pc = "idle" THEN r.op ELSE "none",
                      !.prevKey = IF r.pc = "idle" THEN r.key ELSE NoKey,
                      !.fresh = Slot(key) \notin written,
                      !.restarted = r.restarted, !.restOp = r.restOp, !.restKey = r.restKey,
                      !.scen = r.scen, !.scenKey = r.scenKey, !.codes = r.codes]
    IN  IF op \in Mutations
        THEN IF backend = "memory" THEN [r0 EXCEPT !.pc = "mstore", !.proc = "gate"]
             ELSE [r0 EXCEPT !.pc = "get", !.proc = "gate", !.attempt = 1]
        ELSE IF op = "status"
        THEN StartQuery([r0 EXCEPT !.types = gateTypes(key.Type)])
        ELSE IF IsCanaryGateStore
             THEN [r0 EXCEPT !.pc = "get", !.proc = "event", !.evAttempt = 1]
             ELSE AfterLogEvent(r0)

\* a handler: it reads the body and calls the store only when readPayload returned
\* no error; after badRequest it returns
Received(r, path, key, body) ==
    LET s == IF readPayload(body) = "nil" THEN StartRequest(r, path, key)
             ELSE [IdleCall EXCEPT !.pc = "respond", !.op = "bad", !.path = path]
    IN  [s EXCEPT !.input = body]

---------------------------------------------------------------------------
(* The test scenario of the handlers: on a fresh key, webhook, close,      *)
(* webhook, open, webhook (open and close swapped for rollback).  scen     *)
(* counts the calls of the scenario answered so far, codes are the         *)
(* webhook answers.  The scenario runs with one caller and without faults. *)

Scenario(key) ==
    IF defaultValue(key) THEN <<"webhook", "close", "webhook", "open", "webhook">>
    ELSE <<"webhook", "open", "webhook", "close", "webhook">>

Observe(r, code) ==
    LET done == [IdleCall EXCEPT !.op = r.op, !.key = r.key, !.ret = r.ret, !.noti = r.noti,
                                 !.gates = r.gates, !.path = r.path, !.input = r.input]
    IN  IF Cardinality(DOMAIN call) > 1 THEN [done EXCEPT !.last = r.last]
        ELSE IF faults THEN done
        ELSE IF r.scen \in 1..4 /\ r.key = r.scenKey /\ r.op = Scenario(r.key)[r.scen + 1]
        THEN [done EXCEPT !.scen = r.scen + 1, !.scenKey = r.scenKey,
                          !.codes = IF r.op = "webhook" THEN Append(r.codes, code) ELSE r.codes]
        ELSE IF r.op = "webhook" /\ r.fresh
        THEN [done EXCEPT !.scen = 1, !.scenKey = r.key, !.codes = <<code>>]
        ELSE done

---------------------------------------------------------------------------
(* handler package : the responses                                         *)

createKey(namespace, name) == namespace \o "/" \o name

\* responseAPI: 200 and one CanaryGateStatus under the key "namespace/name"
responseAPI(gate, status) ==
    [code |-> 200,
     body |-> <<createKey(gate.Namespace, gate.Name), gate.Type, gate.Name, gate.Namespace, status>>]

responseWebhookApproveAll(approved) == [code |-> 200, body |-> <<"Approved">>]

\* responseWebhook, once IsGateOpen has returned approved
responseWebhook(approved) ==
    IF approved THEN [code |-> 200, body |-> <<"Approved">>]
    ELSE [code |-> 403, body |-> <<"Forbidden">>]

---------------------------------------------------------------------------
(* The steps.                                                              *)

\* the requests a caller may still make, per kind (a negative count is no limit)
MaxHooks == 1
Kind(op) == IF op \in {"open", "close"} THEN "mutation" ELSE "webhook"
Unlimited == [mutation |-> -1, webhook |-> -1]
OneMutation == [mutation |-> 1, webhook |-> MaxHooks]
MutationOnly == [mutation |-> 1, webhook |-> 0]

Fixed == <<backend, configNS, faults, keys, manifest>>

\* the types a status request may name: a phase, and "all" in the runs of one caller
\* on one key with a cluster API that answers without faults
StatusTypes ==
    Phases \cup (IF \/ faults
                    \/ Cardinality(DOMAIN call) > 1
                    \/ \E c \in DOMAIN call : Cardinality(keys[c]) > 1
                 THEN {} ELSE {HookAll})

\* the types the requests of caller c may name: /open, /close and /status hand any
\* type of the payload to the store
RequestTypes(c) == StatusTypes \cup {k.Type : k \in keys[c]}

\* a well-formed request arrives at /open, /close, /status or at the webhook of
\* key.Type (the router has a webhook for each phase)
Begin(c) ==
    /\ call[c].pc \in {"idle", "panicked"}
    /\ \E op \in {"open", "close", "webhook", "status"}, k \in keys[c], type \in RequestTypes(c) :
        LET key == IF op = "status" THEN StoreKey(k.Namespace, k.Name, type) ELSE k
        IN
          /\ type \in {k.Type, HookAll}
          /\ (type = HookAll /\ k.Type # HookAll) => op = "status"
          /\ op = "webhook" => k.Type \in Phases
          /\ left[c][Kind(op)] # 0
          /\ left' = IF left[c][Kind(op)] > 0 THEN [left EXCEPT ![c][Kind(op)] = @ - 1]
                     ELSE left
          /\ written' = IF faults THEN written
                        ELSE written \cup (IF op \in Mutations THEN {Slot(key)} ELSE {})
                                     \cup (IF RecordsEvent(op) THEN {EventSlot(key)} ELSE {})
          /\ hooked' = (hooked \/ (op \notin Mutations /\ Cardinality(DOMAIN call) > 1))
          /\ call' = [call EXCEPT ![c] = Received(call[c], op, key, "json")]
    /\ UNCHANGED <<Fixed, canaries, data, cluster>>

\* a request whose body is not valid JSON arrives at one of the endpoints
BeginBad(c) ==
    /\ call[c].pc \in {"idle", "panicked"}
    /\ left[c]["webhook"] # 0
    /\ left' = IF left[c]["webhook"] > 0 THEN [left EXCEPT ![c]["webhook"] = @ - 1] ELSE left
    /\ hooked' = (hooked \/ Cardinality(DOMAIN call) > 1)
    /\ \E path \in {"open", "close", "webhook", "status"}, k \in keys[c] :
          call' = [call EXCEPT ![c] = Received(call[c], path, k, "garbage")]
    /\ UNCHANGED <<Fixed, canaries, data, cluster, written>>

\* the caller of /open or /close goes away and the context of its request is
\* cancelled while updateGate / UpdateCanaryGate is in RetryOnConflict: the closures
\* run on context.Background() and context.TODO(), so the store does not see it
Cancel(c) ==
    /\ call[c].op \in Mutations /\ call[c].proc = "gate"
    /\ call[c].pc \in {"get", "update"}
    /\ ~call[c].cancelled
    /\ call' = [call EXCEPT ![c].cancelled = TRUE]
    /\ UNCHANGED <<Fixed, canaries, left, data, cluster, written, hooked>>

\* an actor outside the program (kubectl edit) sets the phase of the key of caller c
\* to opened or closed in an object of the cluster, between two requests (in the runs
\* where the caller works on one key)
Edit(c) ==
    /\ backend # "memory"
    /\ DOMAIN call = {c} /\ Cardinality(keys[c]) = 1
    /\ call[c].pc = "idle"
    /\ \E k \in keys[c], id \in DOMAIN cluster, value \in {GATE_OPEN, GATE_CLOSE} :
          /\ IF backend = "configmap"
             THEN /\ (k.Type \in DOMAIN cluster[id].Data => cluster[id].Data[k.Type] # value)
                  /\ cluster' = [cluster EXCEPT ![id].Data = Put(@, k.Type, value)]
             ELSE /\ cluster[id].Spec[k.Type] # value
                  /\ cluster' = [cluster EXCEPT ![id].Spec[k.Type] = value]
          /\ written' = IF faults THEN written ELSE written \cup {<<id, k.Type>>}
          /\ call' = [call EXCEPT ![c] = [IdleCall EXCEPT !.op = "edit", !.key = k]]
    /\ UNCHANGED <<Fixed, canaries, left, data, hooked>>

\* the webhooks of the controller: the seven phases and event
controllerWebhooks ==
    <<HookConfirmRollout, HookPreRollout, HookRollout, HookConfirmTrafficIncrease,
      HookConfirmPromotion, HookPostRollout, HookRollback, HookEvent>>

\* Reconcile: the CanarySpec decoded from spec.flagger with Analysis.Webhooks assigned
reconciledSpec(flagger) ==
    [TargetRef |-> flagger.TargetRef, Webhooks |-> controllerWebhooks]

\* CanaryGateReconciler.Reconcile of one CanaryGate: json.Unmarshal fails on a
\* flagger field without content and Reconcile returns the error; otherwise
\* CreateOrUpdate writes the Canary at spec.target
Reconcile ==
    /\ backend = "canarygate"
    /\ \E id \in DOMAIN cluster :
          canaries' = IF ~cluster[id].Flagger.Raw THEN canaries
                      ELSE Put(canaries, cluster[id].Target, reconciledSpec(cluster[id].Flagger))
    /\ UNCHANGED <<Fixed, left, data, cluster, call, written, hooked>>

NewMemoryStoreKeepsMap == data

\* NewMemoryStore: a new, empty sync.Map
NewMemoryStore == <<>>

\* the process is restarted between two requests: main builds a new store over the
\* same cluster and with the same CANARY_GATE_NAMESPACE
Restart ==
    /\ \A c \in DOMAIN call : call[c].pc \in {"idle", "panicked"}
    /\ data' = IF backend = "memory" THEN NewMemoryStore ELSE data
    /\ written' = IF backend = "memory" THEN {} ELSE written
    /\ call' = [c \in DOMAIN call |->
                  IF faults \/ Cardinality(DOMAIN call) > 1 \/ call[c].pc # "idle" THEN IdleCall
                  ELSE IF call[c].restarted THEN call[c]
                  ELSE [IdleCall EXCEPT !.restarted = TRUE, !.restOp = call[c].op,
                                        !.restKey = call[c].key]]
    /\ UNCHANGED <<Fixed, canaries, left, cluster, hooked>>

\* MemoryStore.GateOpen / GateClose: data.Store(getKey(key), val)
MemStore(c) ==
    /\ call[c].pc = "mstore"
    /\ data' = Put(data, getKey(call[c].key), call[c].op = "open")
    /\ call' = [d \in DOMAIN call |->
                  IF d = c THEN [call[c] EXCEPT !.pc = "mevent", !.last = TRUE]
                  ELSE Outdone(call[d], call[c])]
    /\ UNCHANGED <<Fixed, canaries, left, cluster, written, hooked>>

\* MemoryStore.UpdateEvent: data.Store(getEventKey(key), message)
MemEvent(c) ==
    /\ call[c].pc = "mevent"
    /\ data' = Put(data, getEventKey(call[c].key),
                   GateMessage(call[c].key, GateStatus(call[c].op = "open")))
    /\ call' = [call EXCEPT ![c].pc = "respond"]
    /\ UNCHANGED <<Fixed, canaries, left, cluster, written, hooked>>

MemLoadThenStore(c) ==
    /\ call[c].pc = "mload"
    /\ data' = Put(data, getKey(CurKey(call[c])), defaultValue(CurKey(call[c])))
    /\ call' = [call EXCEPT ![c] = QueryDone(@, defaultValue(CurKey(call[c])))]
    /\ UNCHANGED <<Fixed, canaries, left, cluster, written, hooked>>

\* MemoryStore.IsGateOpen: data.LoadOrStore(getKey(key), defaultValue(key))
MemLoad(c) ==
    /\ call[c].pc = "mload"
    /\ data' = IF getKey(CurKey(call[c])) \in DOMAIN data THEN data
               ELSE Put(data, getKey(CurKey(call[c])), defaultValue(CurKey(call[c])))
    /\ call' = [call EXCEPT ![c] =
                   IF getKey(CurKey(call[c])) \in DOMAIN data
                        /\ ~IsBool(data[getKey(CurKey(call[c]))])
                   THEN Panic(@)
                   ELSE QueryDone(@, memoryGate(CurKey(call[c])))]
    /\ UNCHANGED <<Fixed, canaries, left, cluster, written, hooked>>

\* ConfirmRollout: noti.SendMessages, its error is logged only
Notify(c) ==
    /\ call[c].pc = "notify"
    /\ \E out \in {"sent", "failed"} :
          call' = [call EXCEPT ![c] = StartQuery([@ EXCEPT !.noti = out])]
    /\ UNCHANGED <<Fixed, canaries, left, data, cluster, written, hooked>>

\* GetConfigMap / GetCanaryGate
Get(c) ==
    /\ call[c].pc \in {"get", "reget"}
    /\ \E out \in GetOutcomes(ObjectId(call[c].key)) :
          call' = [call EXCEPT ![c] =
                      AfterGet([@ EXCEPT !.ncalls = IF call[c].proc = "query" THEN @ + 1 ELSE @,
                                         !.cancelled = FALSE,
                                         !.addr = ObjectId(call[c].key)[1]],
                               ObjectId(call[c].key), out)]
    /\ UNCHANGED <<Fixed, canaries, left, data, cluster, written, hooked>>

\* createConfigMap / CreateCanaryGate: the error of Create is logged only
Create(c) ==
    LET id == ObjectId(call[c].key)
    IN  /\ call[c].pc = "create"
        /\ \E out \in CreateOutcomes(id) :
              /\ cluster' = IF out = "ok"
                            THEN Put(cluster, id, IF backend = "configmap"
                                                  THEN newConfigMap(CurKey(call[c]))
                                                  ELSE newCanaryGate(CurKey(call[c])))
                            ELSE cluster
              /\ call' = [call EXCEPT ![c] = AfterCreate([@ EXCEPT !.addr = id[1]], out)]
        /\ UNCHANGED <<Fixed, canaries, left, data, written, hooked>>

\* ConfigMaps(ns).Update / Resource(gvr).Namespace(ns).Update
Update(c) ==
    LET r == call[c]
    IN  /\ r.pc = "update"
        /\ \E out \in UpdateOutcomes(r.conf) :
              /\ cluster' = IF out = "ok" THEN [cluster EXCEPT ![r.conf.id] = r.conf.obj]
                            ELSE cluster
              /\ call' = [d \in DOMAIN call |->
                            IF d = c
                            THEN AfterUpdate([r EXCEPT !.cancelled = FALSE,
                                                       !.addr = updateNamespace(r.conf, r.key)],
                                             out)
                            ELSE IF out = "ok" THEN Outdone(MarkStale(call[d], r.conf.id), r)
                            ELSE call[d]]
        /\ UNCHANGED <<Fixed, canaries, left, data, written, hooked>>

\* StatusGate: GetLastEvent, and the event record that closes the list; the
\* v.(string) of the in-process store panics on an entry that holds a bool
LastEvent(c) ==
    LET r == call[c]
        id == ObjectId(r.key)
    IN  /\ r.pc = "lastevent"
        /\ \E out \in IF backend = "memory" THEN {"ok"} ELSE GetOutcomes(id) :
              LET event == CASE backend = "memory" -> memoryLastEvent(r.key)
                             [] backend = "configmap" -> configMapLastEvent(out, id)
                             [] OTHER -> canaryGateLastEvent(out, id)
              IN  call' = IF backend = "memory" /\ IsBool(event)
                          THEN [call EXCEPT ![c] = Panic(@)]
                          ELSE [call EXCEPT
                                  ![c].pc = "respond",
                                  ![c].addr = IF backend = "memory" THEN @ ELSE id[1],
                                  ![c].gates = createResponse(@, r.key.Namespace, r.key.Name,
                                                              HookEvent, event)]
        /\ UNCHANGED <<Fixed, canaries, left, data, cluster, written, hooked>>

\* badRequest: 400 and no body
badRequest == [code |-> 400, body |-> <<>>]

\* writePayload of StatusGate: 200 and the list under the key "namespace/name"
responseStatus(gate) == [code |-> 200, body |-> <<createKey(gate.Namespace, gate.Name)>>]

\* the handler writes its response
Respond(c) ==
    LET r == call[c]
        resp == IF r.op = "open" THEN responseAPI(r.key, GATE_OPEN)
                ELSE IF r.op = "close" THEN responseAPI(r.key, GATE_CLOSE)
                ELSE IF r.op = "status" THEN responseStatus(r.key)
                ELSE IF r.op = "bad" THEN badRequest
                ELSE responseWebhook(r.ret)
    IN  /\ r.pc = "respond"
        /\ call' = [call EXCEPT ![c] =
                       [Observe(r, resp.code) EXCEPT
                          !.pc = "idle", !.code = resp.code, !.body = resp.body]]
        /\ UNCHANGED <<Fixed, canaries, left, data, cluster, written, hooked>>

Next ==
    \/ Restart
    \/ \E c \in DOMAIN call :
        \/ Begin(c)
        \/ BeginBad(c)
        \/ Cancel(c)
        \/ Edit(c)
        \/ MemStore(c)
        \/ MemEvent(c)
        \/ MemLoad(c)
        \/ Notify(c)
        \/ Get(c)
        \/ Create(c)
        \/ Update(c)
        \/ LastEvent(c)
        \/ Respond(c)

---------------------------------------------------------------------------
(* The runs.                                                               *)

InitStore ==
    /\ backend \in Backends
    /\ configNS \in IF backend = "memory" THEN {""} ELSE ControlNamespaces
    /\ manifest = "<absent>"
    /\ data = <<>>
    /\ cluster = <<>>
    /\ canaries = <<>>
    /\ written = {}
    /\ hooked = FALSE

\* one caller at a time, a cluster API that answers without faults
Init ==
    /\ InitStore
    /\ faults = FALSE
    /\ \E k1 \in HomeKeys, k2 \in AllKeys :
          /\ k2 \in {k1, Sibling(k1), Collider(k1)}
          /\ keys = (1 :> {k1, k2})
    /\ left = (1 :> Unlimited)
    /\ call = (1 :> IdleCall)

Spec == Init /\ [][Next]_vars

\* two callers, each on its own phase of one (namespace, name): each makes one
\* mutation of its gate, and the first at most MaxHooks other requests around it
InitConc ==
    /\ InitStore
    /\ faults = FALSE
    /\ \E k1 \in HomeKeys : keys = (1 :> {k1}) @@ (2 :> {Sibling(k1)})
    /\ left = (1 :> OneMutation) @@ (2 :> MutationOnly)
    /\ call = (1 :> IdleCall) @@ (2 :> IdleCall)

SpecConc == InitConc /\ [][Next]_vars

\* two callers on the same key: each makes one mutation of that gate
InitSame ==
    /\ InitStore
    /\ faults = FALSE
    /\ \E k \in HomeKeys : keys = (1 :> {k}) @@ (2 :> {k})
    /\ left = (1 :> OneMutation) @@ (2 :> MutationOnly)
    /\ call = (1 :> IdleCall) @@ (2 :> IdleCall)

SpecSame == InitSame /\ [][Next]_vars

\* one caller, a cluster API that may fail any call
InitFault ==
    /\ InitStore
    /\ faults = TRUE
    /\ \E k \in HomeKeys : keys = (1 :> {k})
    /\ left = (1 :> Unlimited)
    /\ call = (1 :> IdleCall)

SpecFault == InitFault /\ [][Next]_vars

\* the values an operator may have put into a phase of the record: the two the store
\* writes, the empty string and a string the store never writes
StoredValues == {GATE_OPEN, GATE_CLOSE, "", "open"}

\* the record as GetConfigMap / GetCanaryGate hand it to the store when the stored
\* object holds value in the phase of key and nothing else: the ConfigMap keeps the
\* entry, the CanaryGateSpec decodes an omitted field and an empty one alike
manifestObject(key, value) ==
    IF backend = "configmap" THEN [Data |-> (key.Type :> value)]
    ELSE [Spec |-> [t \in Phases |-> IF t = key.Type THEN value ELSE ""],
          Status |-> [Name |-> "", Namespace |-> "", Status |-> "", Message |-> ""],
          Target |-> NoTarget, Flagger |-> NoFlagger]

\* one caller, a cluster API that answers without faults, and a record that exists
\* before the first request, holding manifest in the phase of the caller's key
InitStored ==
    /\ backend \in Backends
    /\ configNS \in IF backend = "memory" THEN {""} ELSE ControlNamespaces
    /\ faults = FALSE
    /\ \E k \in HomeKeys :
          /\ keys = (1 :> {k})
          /\ manifest \in IF backend = "memory" THEN {"<absent>"} ELSE StoredValues
          /\ cluster = IF backend = "memory" THEN <<>>
                       ELSE (ObjectId(k) :> manifestObject(k, manifest))
    /\ data = <<>>
    /\ canaries = <<>>
    /\ written = {}
    /\ hooked = FALSE
    /\ left = (1 :> Unlimited)
    /\ call = (1 :> IdleCall)

SpecStored == InitStored /\ [][Next]_vars

\* the types outside the seven phases that a payload may name: all, event, and a
\* string that is no hook type
OtherTypes == {HookAll, HookEvent, "canary"}

\* one caller, a cluster API that answers without faults; the caller works on a
\* phase of one (namespace, name) and on a type outside the phases for the same pair
InitTypes ==
    /\ InitStore
    /\ faults = FALSE
    /\ \E k \in HomeKeys, t \in OtherTypes :
          /\ k.Type \in {HookConfirmRollout, HookRollback}
          /\ keys = (1 :> {k, StoreKey(k.Namespace, k.Name, t)})
    /\ left = (1 :> Unlimited)
    /\ call = (1 :> IdleCall)

SpecTypes == InitTypes /\ [][Next]_vars

\* the flagger fields of the examples: a target reference, and no or one analysis
\* webhook of the user
Flaggers ==
    {[Raw |-> TRUE, TargetRef |-> "deployment", Webhooks |-> hooks] :
        hooks \in {<<>>, <<"load-test">>}}

\* the CanaryGate of the README for the target of key: named after the target, with
\* the phase of key set to value
appliedGate(key, value, flagger) ==
    [Spec |-> [t \in Phases |-> IF t = key.Type THEN value ELSE ""],
     Status |-> [Name |-> "", Namespace |-> "", Status |-> "", Message |-> ""],
     Target |-> [Namespace |-> key.Namespace, Name |-> key.Name],
     Flagger |-> flagger]

\* one caller on the custom-resource backend, a cluster API that answers without
\* faults, and a CanaryGate that the operator applied as the README shows it:
\* metadata.name is the name of the target, the phase of the caller's key is closed
InitApplied ==
    /\ backend = "canarygate"
    /\ configNS \in ControlNamespaces
    /\ faults = FALSE
    /\ manifest = GATE_CLOSE
    /\ \E k \in HomeKeys, flagger \in Flaggers :
          /\ k.Type \in {HookConfirmRollout, HookRollback}
          /\ keys = (1 :> {k})
          /\ \E ns \in {k.Namespace, getCanaryGateNamespace(k)} :
                cluster = (<<ns, k.Name>> :> appliedGate(k, manifest, flagger))
    /\ data = <<>>
    /\ canaries = <<>>
    /\ written = {}
    /\ hooked = FALSE
    /\ left = (1 :> Unlimited)
    /\ call = (1 :> IdleCall)

\* the webhook server and the controller of the CanaryGate resources
NextApplied ==
    \/ Reconcile
    \/ Next

SpecApplied == InitApplied /\ [][NextApplied]_vars

---------------------------------------------------------------------------
(* The properties.                                                         *)

Callers == DOMAIN call
ForwardPhases == {HookConfirmRollout, HookPreRollout, HookRollout, HookConfirmTrafficIncrease,
                  HookConfirmPromotion, HookPostRollout}
Returned(c) == call[c].pc \in {"respond", "idle"}

C2_ReadYourWrite ==
    /\ [](\A c \in Callers :
            (call[c].pc = "respond" /\ call[c].op = "webhook"
                /\ call[c].prevOp \in Mutations /\ call[c].prevKey = call[c].key)
                => (call[c].ret = (call[c].prevOp = "open")))
    /\ [][\A c \in Callers :
            (call[c].pc \notin {"idle", "panicked"} /\ call[c].op \in Mutations
                /\ call[c].prevOp = call[c].op /\ call[c].prevKey = call[c].key)
                => (data' = data /\ cluster' = cluster)]_vars

\* IsGateOpen answers false right after GateClose of a forward phase on the custom resource
C2_Witness ==
    \E c \in Callers :
        /\ call[c].pc = "respond" /\ call[c].op = "webhook"
        /\ call[c].prevOp = "close" /\ call[c].prevKey = call[c].key
        /\ call[c].key.Type \in ForwardPhases /\ ~call[c].ret
        /\ backend = "canarygate"

\* C3: a phase webhook is answered 200 Approved exactly when IsGateOpen of the
\* payload's key returned true and 403 Forbidden otherwise; the scenario webhook,
\* close, webhook, open, webhook on a fresh forward key is answered 200, 403, 200,
\* and webhook, open, webhook, close, webhook on a fresh rollback key 403, 200, 403.
C3_WebhookAnswer ==
    \A c \in Callers :
        /\ (call[c].pc = "idle" /\ call[c].op = "webhook")
              => \/ call[c].ret /\ call[c].code = 200 /\ call[c].body = <<"Approved">>
                 \/ ~call[c].ret /\ call[c].code = 403 /\ call[c].body = <<"Forbidden">>
        /\ call[c].scen = 5
              => call[c].codes = IF call[c].scenKey.Type \in ForwardPhases
                                 THEN <<200, 403, 200>> ELSE <<403, 200, 403>>

\* the rollback scenario has run to its end on the custom resource
C3_Witness ==
    \E c \in Callers :
        /\ call[c].scen = 5 /\ call[c].scenKey.Type = HookRollback
        /\ call[c].pc = "idle" /\ call[c].code = 403
        /\ backend = "canarygate"

\* C4: when two concurrent GateOpen/GateClose calls on two phases of one
\* (namespace, name) have both returned, and no other request was made, each phase
\* holds the value its caller wrote.
C4_NoLostWrite ==
    (backend # "memory" /\ ~hooked
        /\ \A c \in Callers : Returned(c) /\ call[c].op \in Mutations)
        => \A c \in Callers : RawField(call[c].key) = GateStatus(call[c].op = "open")

\* both writes are in, one of them after a conflict and a retry
C4_Witness ==
    /\ backend = "configmap" /\ ~hooked
    /\ \A c \in Callers : Returned(c) /\ call[c].op \in Mutations
    /\ \E c \in Callers : call[c].pc = "respond" /\ call[c].attempt >= 2
    /\ \A c \in Callers : RawField(call[c].key) = GateStatus(call[c].op = "open")

\* C5: no step of GateOpen(k) or GateClose(k) changes what IsGateOpen returns for
\* any other key k'.
C5_Frame ==
    [][\A c \in Callers : \A k \in AllKeys :
          (call[c].pc \notin {"idle", "panicked"} /\ call[c].op \in Mutations /\ k # call[c].key)
              => (GateView(k)' = GateView(k))]_vars

\* C6: a GateOpen/GateClose whose every write is answered with a conflict gives up
\* after Steps attempts, returns to the handler without an error and without a
\* panic, and leaves the gate as it was.
C6_ConflictsExhaust ==
    \A c \in Callers :
        /\ call[c].attempt <= Steps /\ call[c].evAttempt <= Steps
        /\ (call[c].op \in Mutations /\ call[c].writes = "conflict" /\ ~call[c].readErr)
              => /\ call[c].pc # "panicked"
                 /\ call[c].pc = "respond"
                       => /\ call[c].attempt = Steps
                          /\ GateView(call[c].key) = call[c].before.view
                          /\ call[c].before.raw # "<absent>"
                                => RawField(call[c].key) = call[c].before.raw

\* a close of an open gate has given up after Steps conflicts: the gate is still open
C6_Witness ==
    \E c \in Callers :
        /\ call[c].pc = "respond" /\ call[c].op = "close"
        /\ call[c].writes = "conflict" /\ ~call[c].readErr
        /\ call[c].attempt = Steps /\ call[c].before.raw = GATE_OPEN
        /\ RawField(call[c].key) = GATE_OPEN

\* C7: when its fetch fails with an error, IsGateOpen returns the phase default,
\* whatever is stored, after at most three substrate calls (get, create, get).
C7_FetchErrorDefault ==
    \A c \in Callers :
        /\ call[c].proc = "query" => call[c].ncalls <= 3
        /\ (call[c].pc = "respond" /\ call[c].op = "webhook" /\ call[c].fetchErr)
              => call[c].ret = (call[c].key.Type \in ForwardPhases)

\* the gate is stored closed, the fetch fails, and IsGateOpen answers the default, open
C7_Witness ==
    \E c \in Callers :
        /\ call[c].pc = "respond" /\ call[c].op = "webhook" /\ call[c].fetchErr
        /\ call[c].before.raw = GATE_CLOSE /\ call[c].ret

\* C8: GateOpen and GateClose on the custom-resource backend return normally for
\* every outcome of the substrate calls.
C8_NoPanic ==
    \A c \in Callers :
        ~(backend = "canarygate" /\ call[c].op \in Mutations /\ call[c].pc = "panicked")

\* C9 as stated: a GateOpen/GateClose gives up on a non-conflict error only after it
\* has retried it for all its attempts.
C9_ErrorsRetried ==
    \A c \in Callers :
        (call[c].pc = "respond" /\ call[c].op \in Mutations
            /\ call[c].gateErr \notin {"nil", "conflict"})
            => call[c].attempt = Steps

\* C9 amended: a non-conflict error of the read or the write of a GateOpen/GateClose
\* is never retried: the attempt that met it is the last one.
C9_ErrorsNotRetried ==
    \A c \in Callers :
        (call[c].op \in Mutations /\ call[c].hardAt # 0)
            => /\ call[c].attempt = call[c].hardAt
               /\ call[c].pc \in {"respond", "panicked"} \/ call[c].proc = "event"

\* the second attempt, made after a conflict, met an error and was the last
C9_Witness ==
    \E c \in Callers :
        /\ call[c].pc = "respond" /\ call[c].op \in Mutations
        /\ call[c].hardAt = 2 /\ call[c].attempt = 2 /\ call[c].gateErr = "error"

\* C10: every well-formed open or close request is answered 200 with the status
\* opened or closed.
C10_AlwaysAnswered ==
    \A c \in Callers :
        call[c].op \in Mutations
            => /\ call[c].pc # "panicked"
               /\ call[c].pc = "idle"
                     => /\ call[c].code = 200
                        /\ call[c].body[5] = IF call[c].op = "open" THEN GATE_OPEN ELSE GATE_CLOSE

\* C11: when GateOpen(k) and GateClose(k) of two callers on the same key have both
\* returned (and no other request was made), the stored value of k is opened or
\* closed, one of the two writes was accepted, and the stored value is the one of
\* the write that was accepted last.
C11_LastWriterWins ==
    (~hooked /\ \A c \in Callers : Returned(c) /\ call[c].op \in Mutations)
        => /\ \A c \in Callers : RawField(call[c].key) \in {GATE_OPEN, GATE_CLOSE}
           /\ \E c \in Callers : call[c].last
           /\ \A c \in Callers :
                 call[c].last => RawField(call[c].key) = GateStatus(call[c].op = "open")

\* an open and a close of one gate have both returned; the close conflicted, was
\* retried, and was accepted last: the custom resource says closed
C11_Witness ==
    /\ backend = "canarygate" /\ ~hooked /\ keys[1] = keys[2]
    /\ \A c \in Callers : Returned(c)
    /\ \E c, d \in Callers :
          /\ call[c].op = "open" /\ ~call[c].last
          /\ call[d].op = "close" /\ call[d].last
          /\ call[d].pc = "respond" /\ call[d].attempt >= 2
          /\ RawField(call[d].key) = GATE_CLOSE

\* C12: on the two persistent backends, once an IsGateOpen (status request), a
\* GateOpen, a GateClose or an UpdateEvent (webhook) has returned, with a cluster
\* API that accepts the create, the backing object of the key exists.
C12_LazyCreate ==
    \A c \in Callers :
        (backend # "memory" /\ call[c].pc = "respond"
            /\ call[c].op \in {"open", "close", "webhook", "status"})
            => ObjectId(call[c].key) \in DOMAIN cluster

\* C13 as stated: a phase field is present in a ConfigMap of the store only after a
\* GateOpen/GateClose of that phase.
C13_SeededWithNothing ==
    \A k \in AllKeys :
        (backend = "configmap" /\ RawField(k) # "<absent>") => Slot(k) \in written

\* C13 amended: the ConfigMap the store creates lazily holds exactly one phase
\* field, the phase of the key whose access created it, at that phase's default;
\* any other phase is absent until a GateOpen/GateClose of it.
C13_SeededWithCreator ==
    /\ [][backend = "configmap" =>
            \A id \in (DOMAIN cluster') \ (DOMAIN cluster) :
                \E c \in Callers :
                    /\ call[c].pc = "create"
                    /\ cluster'[id].Data =
                          (CurKey(call[c]).Type :>
                              IF CurKey(call[c]).Type = HookRollback THEN GATE_CLOSE ELSE GATE_OPEN)]_vars
    /\ [](\A k \in AllKeys :
            (backend = "configmap" /\ RawField(k) # "<absent>" /\ Slot(k) \notin written)
                => /\ RawField(k) = IF k.Type = HookRollback THEN GATE_CLOSE ELSE GATE_OPEN
                   /\ DOMAIN cluster[ObjectId(k)].Data \subseteq
                         {k.Type, HookEvent} \cup {j.Type : j \in {x \in AllKeys : Slot(x) \in written}})

\* a query of the rollback gate created the ConfigMap: it holds rollback = closed only
C13_Witness ==
    /\ backend = "configmap"
    /\ \E k \in AllKeys :
          /\ k.Type = HookRollback /\ Slot(k) \notin written
          /\ ObjectId(k) \in DOMAIN cluster
          /\ cluster[ObjectId(k)].Data = (HookRollback :> GATE_CLOSE)

\* the phase of the key still holds what the record held before the first request
Untouched(c) == Slot(call[c].key) \notin written

\* C14 as stated: when the stored value of the phase is neither opened nor closed,
\* IsGateOpen returns the phase default.
C14_MalformedIsDefault ==
    \A c \in Callers :
        (call[c].pc = "respond" /\ call[c].op = "webhook" /\ Untouched(c)
            /\ manifest \notin {"<absent>", GATE_OPEN, GATE_CLOSE})
            => call[c].ret = (call[c].key.Type \in ForwardPhases)

\* C14 amended: when the stored value of the phase is a non-empty string other than
\* opened or closed, IsGateOpen returns false, on the forward phases too.
C14_MalformedIsClosed ==
    \A c \in Callers :
        (call[c].pc = "respond" /\ call[c].op = "webhook" /\ Untouched(c)
            /\ manifest \notin {"<absent>", "", GATE_OPEN, GATE_CLOSE})
            => ~call[c].ret

\* the custom resource holds "open" in a forward phase and IsGateOpen answers false
C14_Witness ==
    \E c \in Callers :
        /\ call[c].pc = "respond" /\ call[c].op = "webhook" /\ Untouched(c)
        /\ manifest = "open" /\ call[c].key.Type \in ForwardPhases /\ ~call[c].ret
        /\ backend = "canarygate"

\* C15 as stated: on both persistent backends a phase field that is present with a
\* value other than opened, the empty string included, reads as closed.
C15_PresentNotOpenedIsClosed ==
    \A c \in Callers :
        (call[c].pc = "respond" /\ call[c].op = "webhook" /\ Untouched(c)
            /\ manifest \notin {"<absent>", GATE_OPEN})
            => ~call[c].ret

\* C15 amended: on the config-map backend a present field other than opened, the
\* empty string included, reads as closed; on the custom-resource backend a
\* non-empty value other than opened reads as closed and the empty string reads as
\* an absent field, at the phase default.
C15_EmptyIsAbsentOnCustomResource ==
    \A c \in Callers :
        (call[c].pc = "respond" /\ call[c].op = "webhook" /\ Untouched(c)
            /\ manifest \notin {"<absent>", GATE_OPEN})
            => call[c].ret = (/\ backend = "canarygate" /\ manifest = ""
                              /\ call[c].key.Type \in ForwardPhases)

\* the custom resource holds the empty string in a forward phase: IsGateOpen is true
C15_Witness ==
    \E c \in Callers :
        /\ call[c].pc = "respond" /\ call[c].op = "webhook" /\ Untouched(c)
        /\ manifest = "" /\ call[c].key.Type \in ForwardPhases
        /\ backend = "canarygate" /\ call[c].ret

\* the event record that closes the list of a status response
EventRecord(c) == call[c].gates[Len(call[c].gates)]

\* a status request for the (namespace, name) of the mutation answered right before it
AfterMutation(c) ==
    /\ call[c].pc = "respond" /\ call[c].op = "status"
    /\ call[c].prevOp \in Mutations
    /\ call[c].prevKey.Namespace = call[c].key.Namespace
    /\ call[c].prevKey.Name = call[c].key.Name

\* C16: with one caller, GetLastEvent for the (namespace, name) of k right after
\* GateOpen(k) returns "Gate [<namespace>/<name>=<phase>] is set to [opened]", and
\* right after GateClose(k) the same with [closed], on each backend.
C16_MutationRecordsEvent ==
    \A c \in Callers :
        AfterMutation(c)
            => EventRecord(c).Status
                  = GateMessage(call[c].prevKey, GateStatus(call[c].prevOp = "open"))

\* the same on the in-process and the ConfigMap backend only
C16_RecordedOffCustomResource ==
    \A c \in Callers :
        (AfterMutation(c) /\ backend # "canarygate")
            => EventRecord(c).Status
                  = GateMessage(call[c].prevKey, GateStatus(call[c].prevOp = "open"))

\* the message of the UpdateEvent that the request answered right before made
LastMessage(c) ==
    IF call[c].prevOp = "webhook" THEN PayloadMessage
    ELSE GateMessage(call[c].prevKey, GateStatus(call[c].prevOp = "open"))

\* a status request for the (namespace, name) of the request answered right before
\* it, which called UpdateEvent
AfterUpdateEvent(c) ==
    /\ call[c].pc = "respond" /\ call[c].op = "status"
    /\ RecordsEvent(call[c].prevOp)
    /\ call[c].prevKey.Namespace = call[c].key.Namespace
    /\ call[c].prevKey.Name = call[c].key.Name

\* C17: on each backend GetLastEvent(k) returns "" while no event was recorded for
\* the (namespace, name) of k, and right after UpdateEvent(k, status, msg) it returns
\* msg for every key of that namespace and name, whatever the phases.
C17_EventRoundTrip ==
    \A c \in Callers :
        /\ (call[c].pc = "respond" /\ call[c].op = "status"
                /\ EventSlot(call[c].key) \notin written)
            => EventRecord(c).Status = ""
        /\ AfterUpdateEvent(c) => EventRecord(c).Status = LastMessage(c)

\* the same where no event was recorded through a key of another (namespace, name)
\* that resolves to the same object
C17_RoundTripWithoutCollision ==
    \A c \in Callers :
        /\ (call[c].pc = "respond" /\ call[c].op = "status"
                /\ \A k \in keys[c] :
                      ObjectId(k) = ObjectId(call[c].key) => EventSlot(k) \notin written)
            => EventRecord(c).Status = ""
        /\ AfterUpdateEvent(c) => EventRecord(c).Status = LastMessage(c)

\* the message of a webhook is read back through the key of another phase
C17_Reached ==
    \E c \in Callers :
        /\ AfterUpdateEvent(c) /\ backend = "canarygate"
        /\ call[c].prevKey.Type # call[c].key.Type
        /\ EventRecord(c).Status = PayloadMessage

\* the value GetLastEvent(key) returns when its fetch succeeds
EventView(key) ==
    CASE backend = "memory" -> memoryLastEvent(key)
      [] backend = "configmap" ->
            configMapLastEvent(IF ObjectId(key) \in DOMAIN cluster THEN "ok" ELSE "notfound",
                               ObjectId(key))
      [] OTHER ->
            canaryGateLastEvent(IF ObjectId(key) \in DOMAIN cluster THEN "ok" ELSE "notfound",
                                ObjectId(key))

\* the record of a status response for type t with the given status
StatusRecord(key, t, status) ==
    [Type |-> t, Name |-> key.Name, Namespace |-> key.Namespace, Status |-> status]

\* C18: a status request with type "all" is answered 200 with, under the key
\* "<namespace>/<name>", the seven gate records in the order confirm-rollout,
\* pre-rollout, rollout, confirm-traffic-increase, confirm-promotion, post-rollout,
\* rollback, each with IsGateOpen of its phase as opened / closed, and then one record
\* of type event with GetLastEvent; a request for one phase with that one gate
\* record and the event record.
C18_StatusRecords ==
    \A c \in Callers :
        LET r == call[c]
            asked == IF r.key.Type = HookAll THEN PhaseOrder ELSE <<r.key.Type>>
            n == Len(asked)
        IN  /\ (r.pc = "respond" /\ r.op = "status")
                => /\ Len(r.gates) = n + 1
                   /\ \A i \in 1..n :
                         r.gates[i] = StatusRecord(r.key, asked[i],
                                         GateStatus(GateView(StoreKey(r.key.Namespace,
                                                                      r.key.Name, asked[i]))))
                   /\ r.gates[n + 1] = StatusRecord(r.key, HookEvent, EventView(r.key))
            /\ (r.pc = "idle" /\ r.op = "status")
                => /\ r.code = 200
                   /\ r.body = <<r.key.Namespace \o "/" \o r.key.Name>>
                   /\ Len(r.gates) = n + 1

\* a status request for all phases lists a closed forward gate, the closed rollback
\* gate and the message of the mutation
C18_Witness ==
    \E c \in Callers :
        /\ call[c].pc = "respond" /\ call[c].op = "status" /\ call[c].key.Type = HookAll
        /\ Len(call[c].gates) = 8
        /\ call[c].gates[3].Status = GATE_CLOSE /\ call[c].gates[5].Status = GATE_OPEN
        /\ call[c].gates[7].Status = GATE_CLOSE
        /\ call[c].gates[8].Status # ""

\* a request whose body did not parse is in the hands of its handler
BadInFlight(r) == r.input = "garbage" /\ r.pc # "idle"

\* C19: a request to a webhook or to /open, /close, /status whose body is not valid
\* JSON is answered 400 and makes no call to the store or to the notification sink:
\* no gate value, event or backing object changes.
C19_BadRequest ==
    /\ [](\A c \in Callers :
            call[c].input = "garbage"
                => /\ call[c].pc \in {"respond", "idle"}
                   /\ call[c].op = "bad" /\ call[c].proc = "none" /\ call[c].noti = "none"
                   /\ call[c].pc = "idle" => (call[c].code = 400 /\ call[c].body = <<>>))
    /\ [][\A c \in Callers :
            (BadInFlight(call[c]) \/ BadInFlight(call'[c]))
                => (data' = data /\ cluster' = cluster)]_vars

\* a body that does not parse was answered 400 on /close while the store holds gates
C19_Witness ==
    \E c \in Callers :
        /\ call[c].pc = "idle" /\ call[c].input = "garbage" /\ call[c].path = "close"
        /\ call[c].code = 400
        /\ written # {}

\* IsGateOpen(k) of the first request after a restart, the request before the restart
\* being GateOpen(k) or GateClose(k)
AcrossRestart(c) ==
    /\ call[c].pc = "respond" /\ call[c].op = "webhook" /\ call[c].restarted
    /\ call[c].restOp \in Mutations /\ call[c].restKey = call[c].key

\* C20: a store instance built anew over the same cluster with the same control
\* namespace answers IsGateOpen of every key as the instance before it did, on the
\* ConfigMap and the CanaryGate backend (GateOpen(k), restart, IsGateOpen(k) is true);
\* a new in-process store answers the defaults of the phases.
C20_RestartRoundTrip ==
    /\ [](\A c \in Callers :
            AcrossRestart(c)
                => call[c].ret = IF backend = "memory" THEN defaultValue(call[c].key)
                                 ELSE call[c].restOp = "open")
    /\ [][\A c \in Callers :
            (call[c].pc = "idle" /\ call'[c].pc = "idle" /\ call'[c].restarted)
                => \A k \in AllKeys :
                      GateView(k)' = IF backend = "memory" THEN defaultValue(k) ELSE GateView(k)]_vars

\* the rollback gate was opened in the custom resource, and the store built after the
\* restart answers IsGateOpen with true
C20_Witness ==
    \E c \in Callers :
        /\ AcrossRestart(c) /\ backend = "canarygate"
        /\ call[c].key.Type = HookRollback /\ call[c].restOp = "open" /\ call[c].ret

\* C21: once the context of an /open or /close request is cancelled while GateOpen /
\* GateClose is in its retry loop, the store makes no further read or write attempt
\* for that call: the call's next fetch or update of the cluster API does not happen.
C21_CancelStopsRetries ==
    [][\A c \in Callers :
          (call[c].cancelled /\ call[c].pc \in {"get", "update"})
              => call'[c].pc = call[c].pc]_vars

\* the (namespace, name) pair of a key
Pair(key) == <<key.Namespace, key.Name>>

\* the places a key resolves to: the entries of the sync.Map, or the backing object
Resolves(key) ==
    IF backend = "memory" THEN {getKey(key), getEventKey(key)} ELSE {ObjectId(key)}

\* C22: two keys with different (namespace, name) pairs never resolve to the same
\* backing object or map entry, on each backend and with or without a control
\* namespace, and no step of a request for one pair changes what IsGateOpen or
\* GetLastEvent return for a key of another pair.
C22_PairsApart ==
    /\ [](\A k1, k2 \in AllKeys :
            Pair(k1) # Pair(k2) => Resolves(k1) \cap Resolves(k2) = {})
    /\ [][\A c \in Callers : \A k \in AllKeys :
            (call[c].pc \notin {"idle", "panicked"} /\ call[c].op # "bad"
                /\ Pair(k) # Pair(call[c].key))
                => (GateView(k)' = GateView(k) /\ EventView(k)' = EventView(k))]_vars

\* C23: every call of the cluster API that a store operation makes for a key (fetch,
\* create, update) is addressed to the control namespace when one is configured and
\* to the namespace of the key otherwise, on the ConfigMap and on the CanaryGate
\* backend alike, and every backing object lies in such a namespace.
C23_ControlNamespaceWins ==
    /\ \A c \in Callers :
          call[c].addr # "none"
              => call[c].addr = IF configNS # "" THEN configNS ELSE call[c].key.Namespace
    /\ \A id \in DOMAIN cluster :
          IF configNS # "" THEN id[1] = configNS
          ELSE \E c \in Callers : \E k \in keys[c] : id[1] = k.Namespace

\* with a control namespace, a ConfigMap was fetched, created and updated there for
\* a key of another namespace
C23_Witness ==
    \E c \in Callers :
        /\ backend = "configmap" /\ configNS = "ctl"
        /\ call[c].op \in Mutations /\ call[c].pc = "respond" /\ call[c].gateErr = "nil"
        /\ call[c].addr = "ctl" /\ call[c].key.Namespace = "a-b"
        /\ DOMAIN cluster = {<<"ctl", "a-b-c-cgate">>}

\* the phase fields and the event entry that a backing object holds
StoredFields(obj) ==
    IF backend = "configmap" THEN DOMAIN obj.Data
    ELSE {t \in Phases : obj.Spec[t] # ""}

\* C24: no store operation deletes a backing object or removes a stored phase
\* field: an object of the cluster and each field it holds are there after every
\* step, and so is every entry of the sync.Map while the process runs.
C24_NothingRemoved ==
    [][/\ \A id \in DOMAIN cluster :
            /\ id \in DOMAIN cluster'
            /\ StoredFields(cluster[id]) \subseteq StoredFields(cluster'[id])
       /\ (\E c \in Callers : call[c].pc \notin {"idle", "panicked"})
            => DOMAIN data \subseteq DOMAIN data']_vars

\* a ConfigMap holds the fields of two phases and the event entry after the second
\* mutation on it
C24_Witness ==
    \E c \in Callers : \E id \in DOMAIN cluster :
        /\ backend = "configmap"
        /\ call[c].pc = "respond" /\ call[c].op \in Mutations
        /\ call[c].prevOp \in Mutations /\ call[c].prevKey.Type # call[c].key.Type
        /\ {call[c].key.Type, call[c].prevKey.Type, HookEvent} \subseteq DOMAIN cluster[id].Data

\* a well-formed request to the confirm-rollout webhook
ConfirmRolloutHook(r) == r.op = "webhook" /\ r.key.Type = HookConfirmRollout

\* C25: SendMessages of the notification sink is called by the confirm-rollout
\* webhook only, once for each well-formed request, and the webhook answers 200 when
\* the gate is open and 403 when it is closed whether SendMessages succeeded or
\* returned an error.
C25_NotifyOnConfirmRollout ==
    /\ [](\A c \in Callers :
            LET r == call[c]
            IN  /\ r.noti # "none" => ConfirmRolloutHook(r)
                /\ (ConfirmRolloutHook(r) /\ r.pc = "respond")
                      => (r.noti \in {"sent", "failed"} /\ r.ret = GateView(r.key))
                /\ (ConfirmRolloutHook(r) /\ r.pc = "idle" /\ r.code # 0)
                      => (r.noti \in {"sent", "failed"} /\ r.code = IF r.ret THEN 200 ELSE 403))
    /\ [][\A c \in Callers :
            (call[c].pc # "idle" /\ call'[c].noti # call[c].noti)
                => (call[c].pc = "notify" /\ call[c].noti = "none")]_vars

\* SendMessages failed and the webhook answered 403 for the closed gate
C25_Witness ==
    \E c \in Callers :
        /\ ConfirmRolloutHook(call[c]) /\ call[c].pc = "idle"
        /\ call[c].noti = "failed" /\ call[c].code = 403

\* SendMessages failed and the webhook answered 200 for the open gate
C25_WitnessOpen ==
    \E c \in Callers :
        /\ ConfirmRolloutHook(call[c]) /\ call[c].pc = "idle"
        /\ call[c].noti = "failed" /\ call[c].code = 200

\* C26: in the in-process store IsGateOpen(k) on an absent key stores the default of
\* the phase and returns it in one step, and on a present key returns the stored
\* value and stores nothing; so the default never replaces the value of a racing
\* GateOpen(k) / GateClose(k), an entry changes only by the Store of a mutation, and
\* IsGateOpen(k) repeated without a mutation in between returns the same value.
C26_LoadOrStoreAtomic ==
    [][backend = "memory" =>
         /\ \A c \in Callers :
               (call[c].pc = "mload" /\ call'[c] # call[c])
                  => LET key == CurKey(call[c])
                     IN  /\ getKey(key) \in DOMAIN data'
                         /\ call'[c].ret = data'[getKey(key)]
                         /\ IF getKey(key) \in DOMAIN data THEN data' = data
                            ELSE data'[getKey(key)] = defaultValue(key)
         /\ \A e \in DOMAIN data \cap DOMAIN data' :
               data'[e] # data[e]
                  => \E c \in Callers :
                        \/ /\ call[c].pc = "mstore" /\ e = getKey(call[c].key)
                           /\ data'[e] = (call[c].op = "open")
                        \/ call[c].pc = "mevent" /\ e = getEventKey(call[c].key)]_vars

\* IsGateOpen returns the value of a GateClose that is still on its way, on a
\* forward phase: the default did not replace it
C26_Witness ==
    \E c, d \in Callers :
        /\ backend = "memory" /\ c # d
        /\ call[c].pc = "respond" /\ call[c].op = "webhook" /\ ~call[c].ret
        /\ call[c].key.Type \in ForwardPhases
        /\ call[d].pc = "mevent" /\ call[d].op = "close" /\ call[d].key = call[c].key
        /\ ~data[getKey(call[c].key)]

\* the CanaryGate objects whose spec.target is the (namespace, name) of key
GatesFor(key) ==
    {id \in DOMAIN cluster :
        cluster[id].Target = [Namespace |-> key.Namespace, Name |-> key.Name]}

\* C27: for a CanaryGate whose spec.target is (namespace, name), the confirm-rollout
\* webhook for that target answers 403 while the resource says confirm-rollout:
\* closed and 200 once it says opened; a value that an actor outside the program
\* writes to the resource is what the next IsGateOpen returns.
C27_GateOfTarget ==
    \A c \in Callers : \A id \in GatesFor(call[c].key) :
        (call[c].pc = "respond" /\ ConfirmRolloutHook(call[c]))
            => call[c].ret = (cluster[id].Spec[HookConfirmRollout] = GATE_OPEN)

\* the second half alone, where the only object of the cluster is the one the store
\* resolves the key to: IsGateOpen right after an edit returns the edited value
C27_EditIsSeen ==
    \A c \in Callers :
        (call[c].pc = "respond" /\ call[c].op = "webhook" /\ backend # "memory"
            /\ call[c].prevOp = "edit" /\ call[c].prevKey = call[c].key
            /\ DOMAIN cluster = {ObjectId(call[c].key)})
            => call[c].ret = (RawField(call[c].key) = GATE_OPEN)

\* an edited value is read by the next IsGateOpen
C27_EditReached ==
    \E c \in Callers :
        /\ call[c].pc = "respond" /\ call[c].op = "webhook" /\ backend = "canarygate"
        /\ call[c].prevOp = "edit" /\ call[c].prevKey = call[c].key
        /\ DOMAIN cluster = {ObjectId(call[c].key)}
        /\ call[c].key.Type = HookRollback /\ call[c].ret

\* C28: once Reconcile has succeeded for a CanaryGate, the Canary at spec.target
\* holds the content of the flagger field, the analysis webhooks that the user listed
\* included, after the eight webhooks of the controller.
C28_CanaryKeepsFlagger ==
    \A id \in DOMAIN cluster :
        (cluster[id].Flagger.Raw /\ cluster[id].Target \in DOMAIN canaries)
            => /\ canaries[cluster[id].Target].TargetRef = cluster[id].Flagger.TargetRef
               /\ canaries[cluster[id].Target].Webhooks
                     = controllerWebhooks \o cluster[id].Flagger.Webhooks

\* both callers of a race at the end of their request, each after a Create
Raced ==
    /\ backend # "memory"
    /\ \A c \in Callers :
          call[c].pc = "respond" /\ call[c].op \in Mutations /\ call[c].made # "none"

\* C29: when two first mutations of one never-seen (namespace, name) race on a
\* persistent backend and both fetches answer not-found, exactly one Create
\* succeeds, the other caller passes over already-exists and goes on with the object
\* that was created, and both mutations are applied to the one object.
C29_CreateRace ==
    Raced => /\ \E c \in Callers : call[c].made = "ok"
                                   /\ \A d \in Callers \ {c} : call[d].made = "exists"
             /\ \A c \in Callers : /\ call[c].gateErr = "nil"
                                   /\ RawField(call[c].key) = GateStatus(call[c].op = "open")
             /\ Cardinality(DOMAIN cluster) = 1

\* a close and an open of two phases raced through the Create on the config map
C29_Witness ==
    /\ Raced /\ backend = "configmap"
    /\ call[1].made = "exists" /\ call[2].made = "ok"
    /\ call[1].op = "close" /\ call[2].op = "open"
    /\ call[1].key # call[2].key
    /\ \A c \in Callers : RawField(call[c].key) = GateStatus(call[c].op = "open")

\* C30: on the in-process and the config-map backend, once concurrent GateOpen and
\* GateClose calls on one key have all returned (and no other request was made), the
\* last event message "Gate [k] is set to [s]" names the state s that the gate of k
\* holds.
C30_EventNamesState ==
    (backend \in {"memory", "configmap"} /\ ~hooked
        /\ \A c \in Callers : Returned(c) /\ call[c].op \in Mutations)
        => \A c \in Callers :
              EventView(call[c].key) = GateMessage(call[c].key, RawField(call[c].key))

\* C31: on the config-map backend the event "Gate [k] is set to [s]" is recorded
\* only by an attempt whose gate write was accepted: while a GateOpen/GateClose is
\* in an attempt whose Update was rejected (a conflict or another error), no step
\* of it changes the last event of its (namespace, name).
C31_EventAfterAcceptedWrite ==
    [][\A c \in Callers :
          (backend = "configmap" /\ call[c].op \in Mutations
              /\ call[c].proc = "event" /\ call[c].gateErr # "nil")
              => EventView(call[c].key)' = EventView(call[c].key)]_vars

\* C32: in the in-process store, for every type that /open, /close and /status hand
\* to the store (a phase, all, event or another string), IsGateOpen finds a bool at
\* the entry of the gate and GetLastEvent a string at the entry of the event: no
\* request ends in the panic of a type assertion.
C32_AssertionsHold ==
    backend = "memory" => \A c \in Callers : call[c].pc # "panicked"

\* what GetLastEvent answers for the (namespace, name) of key: the message, or the
\* panic of v.(string) on the in-process store
EventAnswer(key) ==
    IF backend = "memory" /\ getEventKey(key) \in DOMAIN data
            /\ IsBool(data[getEventKey(key)])
    THEN "<panic>" ELSE EventView(key)

\* C33: IsGateOpen(k) may create or seed the record of k, but no step of it changes
\* what a later IsGateOpen returns, for k or for any other key, or what a later
\* GetLastEvent returns, on every backend.
C33_QueryKeepsAnswers ==
    [][\A c \in Callers :
          call[c].proc = "query"
              => /\ \A k \in AllKeys : GateView(k)' = GateView(k)
                 /\ \A k \in AllKeys : EventAnswer(k)' = EventAnswer(k)]_vars

\* an open or close request of caller c whose type is none of the seven phases
OffPhase(r) == r.op \in Mutations /\ r.key.Type \notin Phases

\* C34: an open or close request whose type is all, or any string outside the seven
\* phases, leaves IsGateOpen of the seven phases of its (namespace, name) unchanged
\* on every backend, and the endpoint answers 200 with the status opened or closed.
C34_OffPhaseMutation ==
    /\ [][\A c \in Callers :
             (OffPhase(call[c]) /\ call[c].pc # "idle")
                 => \A p \in Phases :
                       LET k == StoreKey(call[c].key.Namespace, call[c].key.Name, p)
                       IN  GateView(k)' = GateView(k)]_vars
    /\ [](\A c \in Callers :
             OffPhase(call[c])
                 => /\ call[c].pc # "panicked"
                    /\ call[c].pc = "idle"
                          => /\ call[c].code = 200
                             /\ call[c].body
                                   = responseAPI(call[c].key,
                                                 GateStatus(call[c].op = "open")).body)

\* /open with type all was answered 200 on the custom-resource backend while the
\* rollback gate of the pair, closed by default, and a gate that was closed before
\* still read closed
C34_Witness ==
    \E c \in Callers :
        /\ backend = "canarygate"
        /\ call[c].pc = "idle" /\ call[c].op = "open" /\ call[c].key.Type = HookAll
        /\ call[c].code = 200
        /\ \E p \in Phases \ {HookRollback} :
              /\ ~GateView(StoreKey(call[c].key.Namespace, call[c].key.Name, p))
              /\ RawField(StoreKey(call[c].key.Namespace, call[c].key.Name, p)) = GATE_CLOSE
        /\ ~GateView(StoreKey(call[c].key.Namespace, call[c].key.Name, HookRollback))

C35_WitnessRecorded ==
    \E c \in Callers :
        /\ backend = "canarygate"
        /\ call[c].op = "webhook" /\ call[c].pc = "respond"
        /\ call[c].prevOp = "close" /\ call[c].prevKey = call[c].key
        /\ EventView(call[c].key) = PayloadMessage

\* the calls of the cluster API that one run of a closure makes at most from pc on:
\* Get, Create, Get again, Update
CallsFrom(pc) ==
    CASE pc = "get" -> 4 [] pc = "create" -> 3 [] pc = "reget" -> 2 [] pc = "update" -> 1
      [] OTHER -> 0

\* an upper bound of the calls of the cluster API that a GateOpen/GateClose of the
\* ConfigMap store still makes: the rest of the running closure, the attempts that
\* UpdateEvent has left (4 calls each, 5 attempts in each attempt of updateGate) and
\* the attempts that updateGate has left (4 + 20 calls each)
CallsLeft(r) ==
    IF r.proc = "gate" THEN CallsFrom(r.pc) + 20 + (5 - r.attempt) * 24
    ELSE IF r.proc = "event" THEN CallsFrom(r.pc) + (5 - r.evAttempt) * 4 + (5 - r.attempt) * 24
    ELSE 0

\* a GateOpen/GateClose of the ConfigMap store before a call of the cluster API
InUpdateGate(r) ==
    /\ backend = "configmap" /\ r.op \in Mutations
    /\ r.pc \in {"get", "create", "reget", "update"}

\* C36: one GateOpen/GateClose on the config-map backend ends for every pattern of
\* answers of the cluster API: the retry loop of the gate and the retry loop of the
\* event inside each of its attempts are bounded, so each call of the cluster API
\* lowers a bound of the calls left that starts at 120 and is positive at every call.
C36_BoundedCalls ==
    /\ [][\A c \in Callers :
             (InUpdateGate(call[c])
                 /\ <<call[c].pc, call[c].proc, call[c].attempt, call[c].evAttempt>>
                       # <<call'[c].pc, call'[c].proc, call'[c].attempt, call'[c].evAttempt>>)
                 => CallsLeft(call'[c]) < CallsLeft(call[c])]_vars
    /\ [](\A c \in Callers :
             InUpdateGate(call[c]) => CallsLeft(call[c]) \in 1..120)

\* the last attempt of UpdateEvent in the last attempt of updateGate is about to
\* make its Update: every retry of both loops was used
C36_Witness ==
    \E c \in Callers :
        /\ InUpdateGate(call[c])
        /\ call[c].proc = "event" /\ call[c].pc = "update"
        /\ call[c].attempt = 5 /\ call[c].evAttempt = 5
        /\ CallsLeft(call[c]) = 1

\* a status request for one phase on the custom-resource backend is about to be
\* answered, and the phase holds a text in the CanaryGate
StatusOfStored(c) ==
    /\ backend = "canarygate"
    /\ call[c].pc = "respond" /\ call[c].op = "status" /\ call[c].key.Type \in Phases
    /\ RawField(call[c].key) # "<absent>"

\* C37: GateBoolStatus(GateStatus(b)) = b for both booleans b, and
\* GateStatus(GateBoolStatus(s)) = s exactly for s opened or closed: every other
\* string maps to false and then to closed.  The strings are the stored values of
\* the runs, and the status a request reports for a stored text is that round trip.
C37_StatusRoundTrip ==
    /\ \A b \in BOOLEAN : GateBoolStatus(GateStatus(b)) = b
    /\ \A s \in StoredValues :
          /\ (GateStatus(GateBoolStatus(s)) = s) <=> (s \in {GATE_OPEN, GATE_CLOSE})
          /\ s \notin {GATE_OPEN, GATE_CLOSE}
                => ~GateBoolStatus(s) /\ GateStatus(GateBoolStatus(s)) = GATE_CLOSE
    /\ \A c \in Callers :
          StatusOfStored(c)
              => LET s == RawField(call[c].key)
                 IN  /\ call[c].gates[1].Status = GateStatus(GateBoolStatus(s))
                     /\ (call[c].gates[1].Status = s) <=> (s \in {GATE_OPEN, GATE_CLOSE})

\* the CanaryGate holds open, a text the store never writes, and the status request
\* reports closed
C37_Witness ==
    \E c \in Callers :
        /\ StatusOfStored(c)
        /\ manifest = "open" /\ RawField(call[c].key) = "open"
        /\ call[c].gates[1].Status = GATE_CLOSE

\* the CanaryGate holds opened, written by GateOpen, and the status request reports
\* opened
C37_WitnessWritten ==
    \E c \in Callers :
        /\ StatusOfStored(c)
        /\ call[c].prevOp = "open" /\ call[c].prevKey = call[c].key
        /\ RawField(call[c].key) = GateStatus(TRUE)
        /\ call[c].gates[1].Status = GATE_OPEN

====
